---- MODULE Spec2Model ----
(***************************************************************************)
(* Session authentication of flask-spa-cross-origin/server/app.py.        *)
(*                                                                         *)
(* The application keeps no session table: `session` is Flask's default    *)
(* signed-cookie session (only SECRET_KEY is configured), so a session is  *)
(* the cookie the client holds.  The cookie carries what login_user()      *)
(* stores (_user_id, _fresh, _id) and the second at which it was signed.   *)
(* The server accepts every cookie it signed that is not older than        *)
(* PERMANENT_SESSION_LIFETIME.  A client owns a cookie jar (what a browser *)
(* sends) and may keep a copy of the cookie a response took out of the jar *)
(* and present that copy again.                                            *)
(***************************************************************************)
EXTENDS Integers, Sequences, FiniteSets, TLC

VARIABLES users, jar, stale, who, now, last, pending, probe

vars == <<users, jar, stale, who, now, last, pending, probe>>

(* ------------------------------ bounds -------------------------------- *)

NumClients == 2
MaxTicks == 1
MaxRecords == 2

Clients == 1..NumClients

\* The server holds no state of a client (the session is the client's
\* cookie), so one client is followed in full detail: its jar, the copy it
\* replays, and the passing of time.  SpecClients lets every client act.
Observed == {c \in Clients : \A d \in Clients : c <= d}

\* a request context: the (remote address, User-Agent) pair of a request
Contexts == {"home", "roaming"}

(* --------------------------- Python values ---------------------------- *)

\* optional values: None is the empty sequence, a value x is <<x>>.
None == <<>>
Some(x) == <<x>>

PyInt(n) == [t |-> "int", v |-> n]
PyStr(s) == [t |-> "str", v |-> s]

Digits == <<"0", "1", "2", "3", "4", "5", "6", "7", "8", "9">>

DigitVal(d) == CHOOSE i \in 0..9 : Digits[i + 1] = d

\* str(n) of a non-negative integer: its decimal digits
RECURSIVE DecimalOf(_)
DecimalOf(n) ==
    IF n < 10 THEN <<Digits[n + 1]>>
    ELSE Append(DecimalOf(n \div 10), Digits[(n % 10) + 1])

RECURSIVE ParseDecimal(_)
ParseDecimal(s) ==
    IF Len(s) = 0 THEN 0
    ELSE 10 * ParseDecimal(SubSeq(s, 1, Len(s) - 1)) + DigitVal(s[Len(s)])

\* a get_id that keeps only the last digit
str_units(x) == IF x.t = "str" THEN x.v ELSE <<Digits[(x.v % 10) + 1]>>

\* UserMixin.get_id(): str(self.id)
str(x) == IF x.t = "str" THEN x.v ELSE DecimalOf(x.v)

\* int(x): an int is itself, a decimal string is parsed
int(x) == IF x.t = "int" THEN x.v ELSE ParseDecimal(x.v)

(* ---------------------------- the database ---------------------------- *)

TheStore == << [id |-> 1, username |-> "test", password |-> "test"] >>

TwoUsers ==
    << [id |-> 1, username |-> "test", password |-> "test"],
       [id |-> 12, username |-> "alice", password |-> "wonder"] >>

\* The database of the repository, and one with a second record: the
\* handlers are written for any list of records.
Stores == {TheStore, TwoUsers}

\* every list of at most MaxRecords records, ids and credentials repeated
\* or not: get_user and the scan of login() are checked on each of them
Ids == {1, 2, 12}
Records == [id : Ids, username : {"test", "alice"},
            password : {"test", "wonder"}]
LookupStores == UNION {[1..n -> Records] : n \in 0..MaxRecords}

\* what reaches get_user for the id n: the integer (current_user.id in
\* user_data), its decimal string (the session's _user_id, through
\* user_loader), and a zero-padded string, which int() reads as n too
Representations(n) ==
    {PyInt(n), PyStr(DecimalOf(n)), PyStr(<<"0">> \o DecimalOf(n))}

\* the (username, password) fields of a login body; None is a missing field
Credentials ==
    { <<Some("test"), Some("test")>>, <<Some("alice"), Some("wonder")>>,
      <<Some("test"), Some("wonder")>>, <<None, Some("test")>>,
      <<Some("test"), None>> }

\* a lookup that stops at the first record whatever its id
get_user_first(user_id) == IF Len(users) = 0 THEN None ELSE Some(users[1])

\* a lookup that compares the ids as texts
get_user_text(user_id) ==
    LET hits == {i \in 1..Len(users) : str(PyInt(users[i].id)) = str(user_id)}
    IN  IF hits = {} THEN None
        ELSE Some(users[CHOOSE i \in hits : \A j \in hits : i <= j])

\* get_user: the first record whose id equals user_id as integers
get_user(user_id) ==
    LET hits == {i \in 1..Len(users) : int(PyInt(users[i].id)) = int(user_id)}
    IN  IF hits = {} THEN None
        ELSE Some(users[CHOOSE i \in hits : \A j \in hits : i <= j])

\* user_loader: a User carrying the record's id, or None
user_loader(id) ==
    LET user == get_user(id)
    IN  IF user # None THEN Some([id |-> user[1].id]) ELSE None

(* ----------------------- sessions and cookies ------------------------- *)

\* 31 days, Flask's default, which app.config leaves in place
PERMANENT_SESSION_LIFETIME == 31 * 24 * 3600

\* _create_identifier(): sha512 of "addr|user-agent", one digest per context
create_identifier(ctx) == <<"sha512", ctx>>

\* the signed cookie: the session's contents and the signing time
Sign(sess, t) ==
    [user_id |-> sess.user_id, fresh |-> sess.fresh, id |-> sess.id, ts |-> t]

Expired(k) == now - k.ts > PERMANENT_SESSION_LIFETIME

\* open_session: the contents of a presented cookie, or the empty session
\* when there is no cookie or its signature is too old
open_session(cookie) ==
    IF cookie = None \/ Expired(cookie[1]) THEN None
    ELSE Some([user_id |-> cookie[1].user_id, fresh |-> cookie[1].fresh,
               id |-> cookie[1].id])

\* a save that signs the session again on every response
save_session_always(sess, modified) ==
    IF sess = None
    THEN [act |-> IF modified THEN "delete" ELSE "none", val |-> None]
    ELSE [act |-> "set", val |-> Some(Sign(sess[1], now))]

\* a save that deletes the cookie of a session the request did not write
save_session_drop(sess, modified) ==
    IF ~modified \/ sess = None THEN [act |-> "delete", val |-> None]
    ELSE [act |-> "set", val |-> Some(Sign(sess[1], now))]

\* save_session: nothing for an untouched session, a deletion for a
\* modified empty one, a freshly signed cookie otherwise
save_session(sess, modified) ==
    IF ~modified THEN [act |-> "none", val |-> None]
    ELSE IF sess = None THEN [act |-> "delete", val |-> None]
    ELSE [act |-> "set", val |-> Some(Sign(sess[1], now))]

\* session protection left off
session_protection_off(sess, ctx) == FALSE

\* session_protection = "strong": a non-empty session whose _id is not the
\* identifier of the request's context
session_protection_failed(sess, ctx) ==
    sess # None /\ sess[1].id # create_identifier(ctx)

\* LoginManager._load_user behind current_user: the user of the request,
\* the session afterwards and whether it was modified
load_user(sess, ctx) ==
    IF session_protection_failed(sess, ctx)
    THEN [user |-> None, sess |-> None, modified |-> TRUE]
    ELSE [user |-> IF sess = None THEN None
                   ELSE user_loader(PyStr(sess[1].user_id)),
          sess |-> sess, modified |-> FALSE]

\* current_user.is_authenticated
is_authenticated(lu) == lu.user # None

\* a view left unprotected
login_required_off(lu) == TRUE

\* @login_required: the view runs only for an authenticated user
login_required(lu) == is_authenticated(lu)

\* a login that never calls login_user
login_user_skipped(user, ctx) == None

\* a login that binds the session to the first record of the list
login_user_as_first(user, ctx) ==
    Some([user_id |-> str(PyInt(users[1].id)), fresh |-> TRUE,
          id |-> create_identifier(ctx)])

\* login_user(user_model): the session after it
login_user(user, ctx) ==
    Some([user_id |-> str(PyInt(user.id)), fresh |-> TRUE,
          id |-> create_identifier(ctx)])

\* a logout that leaves the session as it is
logout_user_keep(sess) == sess

\* logout_user(): the session after it
logout_user(sess) == None

(* ------------------------------ clients ------------------------------- *)

Sources == {"jar", "stale"}

\* a request sent from the jar: now ("jar"), or earlier and still under
\* way ("sent")
FromJar(src) == src # "stale"

\* the Cookie header of a request
Presented(c, src) ==
    IF src = "jar" THEN jar[c]
    ELSE IF src = "sent" THEN pending[c][1].cookie
    ELSE IF stale[c] = None THEN None ELSE Some(stale[c][1].cookie)

CanPresent(c, src) ==
    \/ src = "jar"
    \/ src = "sent" /\ pending[c] # None
    \/ src = "stale" /\ stale[c] # None

\* one session object shared by every client
JarAfterShared(c, src, setc) ==
    IF FromJar(src) /\ setc.act # "none" THEN [d \in Clients |-> setc.val]
    ELSE jar

\* a jar that takes no cookie once its client has logged out
JarAfterTerminal(c, src, setc) ==
    IF FromJar(src) /\ setc.act # "none" /\ who[c].state # "LoggedOut"
    THEN [jar EXCEPT ![c] = setc.val]
    ELSE jar

\* the jar after a response: Set-Cookie reaches the jar only when the
\* request came from it
JarAfter(c, src, setc) ==
    IF FromJar(src) /\ setc.act # "none" THEN [jar EXCEPT ![c] = setc.val]
    ELSE jar

\* the copy the client keeps, when it keeps one, of a cookie the response
\* took out of its jar
StaleAfter(c, src, keep, setc, why) ==
    IF keep /\ FromJar(src) /\ setc.act # "none" /\ jar[c] # None
       /\ jar[c] # setc.val
    THEN [stale EXCEPT ![c] = Some([cookie |-> jar[c][1], why |-> why])]
    ELSE stale

\* what the previous request was, seen from client c
After(c) ==
    IF last.client # c \/ ~FromJar(last.src) THEN "other"
    ELSE IF last.op = "login" /\ last.body = <<"login", "true">> THEN "login_ok"
    ELSE IF last.op = "login" THEN "login_fail"
    ELSE IF last.op = "logout" /\ last.status = 200 THEN "logout_ok"
    ELSE "other"

Ticks(n) ==
    (n \div (PERMANENT_SESSION_LIFETIME + 1))
        + (n % (PERMANENT_SESSION_LIFETIME + 1))

(* ------------------------------ requests ------------------------------ *)

\* what the client has done from its jar: never logged in, logged in with a
\* username and not out since, or logged out
NoSession == [state |-> "NoSession", name |-> None]

Init ==
    /\ users \in Stores
    /\ jar = [c \in Clients |-> None]
    /\ stale = [c \in Clients |-> None]
    /\ who = [c \in Clients |-> NoSession]
    /\ now = 0
    /\ last = [op |-> "init", client |-> 0, ctx |-> "-", src |-> "jar",
               cookie |-> None, kind |-> "-", username |-> None,
               password |-> None, status |-> 0, body |-> <<>>,
               set |-> [act |-> "none", val |-> None], handler |-> FALSE,
               after |-> "other", at |-> 0]
    \* no request is under way, no lookup has been made
    /\ pending = [c \in Clients |-> None]
    /\ probe = None

\* a step that starts or ends no request and makes no lookup
Idle == UNCHANGED <<pending, probe>>

\* time passes: a second, or an idle period longer than the lifetime
Tick(d) ==
    /\ Ticks(now) < MaxTicks
    /\ now' = now + d
    /\ UNCHANGED <<users, jar, stale, who, last>>

\* GET /api/getsession
check_session(c, ctx, src, keep) ==
    /\ CanPresent(c, src)
    /\ LET cookie == Presented(c, src)
           lu == load_user(open_session(cookie), ctx)
           setc == save_session(lu.sess, lu.modified)
       IN  /\ last' = [op |-> "getsession", client |-> c, ctx |-> ctx,
                       src |-> src, cookie |-> cookie, kind |-> "-",
                       username |-> None, password |-> None, status |-> 200,
                       body |-> IF is_authenticated(lu)
                                THEN <<"login", "true">>
                                ELSE <<"login", "false">>,
                       set |-> setc, handler |-> TRUE, after |-> After(c),
                       at |-> now]
           /\ jar' = JarAfter(c, src, setc)
           /\ stale' = StaleAfter(c, src, keep, setc, "protection")
    /\ UNCHANGED <<users, who, now>>

BodyKinds == {"nojson", "unparsable", "null", "list", "string", "object"}

\* request.json and the two data.get calls: the statuses with which the
\* request ends before the credential scan (none for a JSON object).
\* Without a JSON content type request.json is a 415, or None and then an
\* AttributeError, by the Flask release; a JSON null, list or string has
\* no .get, or .get is not a lookup
json_failure(kind) ==
    CASE kind = "object" -> {}
      [] kind = "unparsable" -> {400}
      [] kind = "nojson" -> {415, 500}
      [] OTHER -> {500}

\* a scan that accepts a record matching either field
find_by_either(username, password) ==
    LET hits == {i \in 1..Len(users) :
                    Some(users[i].username) = username
                    \/ Some(users[i].password) = password}
    IN  IF hits = {} THEN None
        ELSE Some(users[CHOOSE i \in hits : \A j \in hits : i <= j])

\* a scan that keeps the last matching record
find_last_by_credentials(username, password) ==
    LET hits == {i \in 1..Len(users) :
                    Some(users[i].username) = username
                    /\ Some(users[i].password) = password}
    IN  IF hits = {} THEN None
        ELSE Some(users[CHOOSE i \in hits : \A j \in hits : i >= j])

\* the scan of login(): the first record with this username and password
find_by_credentials(username, password) ==
    LET hits == {i \in 1..Len(users) :
                    Some(users[i].username) = username
                    /\ Some(users[i].password) = password}
    IN  IF hits = {} THEN None
        ELSE Some(users[CHOOSE i \in hits : \A j \in hits : i <= j])

\* POST /api/login
login(c, ctx, keep, kind, username, password) ==
    /\ (kind = "object") = (<<username, password>> \in Credentials)
    /\ LET cookie == jar[c]
           sess == open_session(cookie)
           user == find_by_credentials(username, password)
           ok == kind = "object" /\ user # None
           sessAfter == IF ok THEN login_user(user[1], ctx) ELSE sess
           setc == save_session(sessAfter, ok)
           statuses == IF kind = "object" THEN {200} ELSE json_failure(kind)
       IN  /\ \E st \in statuses :
                 last' = [op |-> "login", client |-> c, ctx |-> ctx,
                          src |-> "jar", cookie |-> cookie, kind |-> kind,
                          username |-> username, password |-> password,
                          status |-> st,
                          body |-> IF kind # "object" THEN <<>>
                                   ELSE IF ok THEN <<"login", "true">>
                                   ELSE <<"login", "false">>,
                          set |-> setc, handler |-> TRUE, after |-> After(c),
                          at |-> now]
           /\ jar' = JarAfter(c, "jar", setc)
           /\ stale' = StaleAfter(c, "jar", keep, setc, "relogin")
           /\ who' = IF ok
                     THEN [who EXCEPT ![c] =
                              [state |-> "Active", name |-> username]]
                     ELSE who
    /\ UNCHANGED <<users, now>>

\* GET /api/data
user_data(c, ctx, src, keep) ==
    /\ CanPresent(c, src)
    /\ LET cookie == Presented(c, src)
           lu == load_user(open_session(cookie), ctx)
           allowed == login_required(lu)
           \* current_user.id: the anonymous user has none
           user == IF lu.user # None THEN get_user(PyInt(lu.user[1].id))
                   ELSE None
           setc == save_session(lu.sess, lu.modified)
       IN  /\ last' = [op |-> "data", client |-> c, ctx |-> ctx, src |-> src,
                       cookie |-> cookie, kind |-> "-", username |-> None,
                       password |-> None,
                       status |-> IF ~allowed THEN 401
                                  ELSE IF user = None THEN 500 ELSE 200,
                       body |-> IF allowed /\ user # None
                                THEN <<"name", user[1].username>> ELSE <<>>,
                       set |-> setc, handler |-> allowed,
                       after |-> After(c), at |-> now]
           /\ jar' = JarAfter(c, src, setc)
           /\ stale' = StaleAfter(c, src, keep, setc, "protection")
    /\ UNCHANGED <<users, who, now>>

\* GET /api/logout
logout(c, ctx, src, keep) ==
    /\ CanPresent(c, src)
    /\ LET cookie == Presented(c, src)
           lu == load_user(open_session(cookie), ctx)
           allowed == login_required(lu)
           sessAfter == IF allowed THEN logout_user(lu.sess) ELSE lu.sess
           setc == save_session(sessAfter, allowed \/ lu.modified)
       IN  /\ last' = [op |-> "logout", client |-> c, ctx |-> ctx, src |-> src,
                       cookie |-> cookie, kind |-> "-", username |-> None,
                       password |-> None,
                       status |-> IF allowed THEN 200 ELSE 401,
                       body |-> IF allowed THEN <<"logout", "true">> ELSE <<>>,
                       set |-> setc, handler |-> allowed,
                       after |-> After(c), at |-> now]
           /\ jar' = JarAfter(c, src, setc)
           /\ stale' = StaleAfter(c, src, keep, setc,
                                  IF allowed THEN "logout" ELSE "protection")
           /\ who' = IF allowed /\ FromJar(src)
                     THEN [who EXCEPT ![c] =
                              [state |-> "LoggedOut", name |-> None]]
                     ELSE who
    /\ UNCHANGED <<users, now>>

\* the requests of the observed client, and time
Next ==
    \/ \E d \in {1, PERMANENT_SESSION_LIFETIME + 1} : Tick(d) /\ Idle
    \/ \E c \in Observed, ctx \in Contexts, src \in Sources :
          check_session(c, ctx, src, TRUE) /\ Idle
    \/ \E c \in Observed, ctx \in Contexts, kind \in BodyKinds,
          cred \in Credentials \cup {<<None, None>>} :
          login(c, ctx, TRUE, kind, cred[1], cred[2]) /\ Idle
    \/ \E c \in Observed, ctx \in Contexts, src \in Sources :
          user_data(c, ctx, src, TRUE) /\ Idle
    \/ \E c \in Observed, ctx \in Contexts, src \in Sources :
          logout(c, ctx, src, TRUE) /\ Idle

Spec == Init /\ [][Next]_vars

\* the requests every client sends from its jar, keeping no copies, within
\* the lifetime
NextClients ==
    \/ Tick(1) /\ Idle
    \/ \E c \in Clients, ctx \in Contexts :
          check_session(c, ctx, "jar", FALSE) /\ Idle
    \/ \E c \in Clients, ctx \in Contexts, kind \in BodyKinds,
          cred \in Credentials \cup {<<None, None>>} :
          login(c, ctx, FALSE, kind, cred[1], cred[2]) /\ Idle
    \/ \E c \in Clients, ctx \in Contexts :
          user_data(c, ctx, "jar", FALSE) /\ Idle
    \/ \E c \in Clients, ctx \in Contexts :
          logout(c, ctx, "jar", FALSE) /\ Idle

SpecClients == Init /\ [][NextClients]_vars

\* a client sends a request from its jar; it has one request under way at
\* a time
Begin(c, op, ctx, username, password) ==
    /\ pending[c] = None
    /\ (op = "login") = (<<username, password>> \in Credentials)
    /\ pending' = [pending EXCEPT ![c] =
                      Some([op |-> op, ctx |-> ctx, username |-> username,
                            password |-> password, cookie |-> jar[c]])]
    /\ UNCHANGED <<users, jar, stale, who, now, last, probe>>

\* the view of the request of client c runs and the response reaches c
Finish(c) ==
    /\ pending[c] # None
    /\ LET r == pending[c][1]
       IN  \/ r.op = "getsession" /\ check_session(c, r.ctx, "sent", FALSE)
           \/ r.op = "login"
              /\ login(c, r.ctx, FALSE, "object", r.username, r.password)
           \/ r.op = "data" /\ user_data(c, r.ctx, "sent", FALSE)
           \/ r.op = "logout" /\ logout(c, r.ctx, "sent", FALSE)
    /\ pending' = [pending EXCEPT ![c] = None]
    /\ UNCHANGED probe

\* requests of several clients under way at once: the views run in any order
NextConcurrent ==
    \/ \E c \in Clients, ctx \in Contexts,
          op \in {"getsession", "data", "logout"} :
          Begin(c, op, ctx, None, None)
    \/ \E c \in Clients, ctx \in Contexts, cred \in Credentials :
          Begin(c, "login", ctx, cred[1], cred[2])
    \/ \E c \in Clients : Finish(c)

SpecConcurrent == Init /\ [][NextConcurrent]_vars

\* the application started on any list of records
InitLookup ==
    /\ users \in LookupStores
    /\ jar = [c \in Clients |-> None]
    /\ stale = [c \in Clients |-> None]
    /\ who = [c \in Clients |-> NoSession]
    /\ now = 0
    /\ last = [op |-> "init", client |-> 0, ctx |-> "-", src |-> "jar",
               cookie |-> None, kind |-> "-", username |-> None,
               password |-> None, status |-> 0, body |-> <<>>,
               set |-> [act |-> "none", val |-> None], handler |-> FALSE,
               after |-> "other", at |-> 0]
    /\ pending = [c \in Clients |-> None]
    /\ probe = None

\* a call of get_user with a representation of the id n
Lookup(n, arg) ==
    /\ probe' = Some([n |-> n, arg |-> arg, result |-> get_user(arg)])
    /\ UNCHANGED <<users, jar, stale, who, now, last, pending>>

NextLookup ==
    \E n \in Ids \cup {21} : \E arg \in Representations(n) : Lookup(n, arg)

SpecLookup == InitLookup /\ [][NextLookup]_vars

\* the logins of a client on any list of records
NextStore ==
    \E c \in Observed, ctx \in Contexts, kind \in BodyKinds,
       cred \in Credentials \cup {<<None, None>>} :
       login(c, ctx, FALSE, kind, cred[1], cred[2]) /\ Idle

SpecStore == InitLookup /\ [][NextStore]_vars

(* ------------------------------- claims ------------------------------- *)

LoginTrue == <<"login", "true">>
LoginFalse == <<"login", "false">>

\* the last request was answered as an authenticated one
ServedAuthenticated ==
    \/ last.op \in {"data", "logout"} /\ last.handler
    \/ last.op = "getsession" /\ last.body = LoginTrue

\* some record of the store has the credentials of the last login request
CredentialsMatch ==
    \E i \in 1..Len(users) :
        /\ Some(users[i].username) = last.username
        /\ Some(users[i].password) = last.password

\* the last request carried a cookie signed within the lifetime
CookieInLifetime ==
    /\ last.cookie # None
    /\ last.at - last.cookie[1].ts <= PERMANENT_SESSION_LIFETIME

\* ... from the context in which that cookie was issued
SameContext ==
    last.cookie # None /\ last.cookie[1].id = create_identifier(last.ctx)

\* the cookie of the last request names a record of the store
NamesUser ==
    /\ last.cookie # None
    /\ \E i \in 1..Len(users) :
          users[i].id = ParseDecimal(last.cookie[1].user_id)

\* C1: a request that presents the cookie the client held before its logout
\* is never served as authenticated.
C1_LogoutInvalidatesReplay ==
    (/\ last.src = "stale"
     /\ stale[last.client] # None
     /\ stale[last.client][1].why = "logout")
    => ~ServedAuthenticated

\* C2 as stated: a login with the credentials of a record answers
\* {login: true} and sets the session cookie, and the getsession the same
\* client sends next from its jar answers {login: true}.
C2_LoginThenGetsession ==
    /\ (last.op = "login" /\ last.kind = "object" /\ CredentialsMatch)
       => (/\ last.status = 200 /\ last.body = LoginTrue
           /\ last.set.act = "set" /\ jar[last.client] = last.set.val)
    /\ (last.op = "getsession" /\ last.src = "jar" /\ last.after = "login_ok")
       => last.body = LoginTrue

\* C2 amended: ... the getsession the same client sends next from its jar,
\* from the context of the login and within the session lifetime, answers
\* {login: true}.
C2_LoginThenGetsessionSameContext ==
    /\ (last.op = "login" /\ last.kind = "object" /\ CredentialsMatch)
       => (/\ last.status = 200 /\ last.body = LoginTrue
           /\ last.set.act = "set" /\ jar[last.client] = last.set.val)
    /\ (/\ last.op = "getsession" /\ last.src = "jar"
        /\ last.after = "login_ok"
        /\ SameContext /\ CookieInLifetime)
       => (last.status = 200 /\ last.body = LoginTrue)

C2_Witness ==
    /\ last.op = "getsession" /\ last.src = "jar" /\ last.after = "login_ok"
    /\ SameContext /\ CookieInLifetime
    /\ last.body = LoginTrue

\* C3: a login whose username and password match no record (a missing field
\* included) answers 200 {login: false}, sends no cookie and leaves the
\* client's jar as it was.
C3_FailedLoginIssuesNothing ==
    (last.op = "login" /\ last.kind = "object" /\ ~CredentialsMatch)
    => (/\ last.status = 200 /\ last.body = LoginFalse
        /\ last.set.act = "none"
        /\ jar[last.client] = last.cookie)

C3_Witness ==
    /\ last.op = "login" /\ last.kind = "object" /\ ~CredentialsMatch
    /\ last.password = None
    /\ last.body = LoginFalse
    /\ jar[last.client] # None

\* C4: GET /api/data from a client that has never logged in successfully is
\* answered 401 with no name and the view is not run; so is every data
\* request that carries no cookie.
C4_DataNeedsSession ==
    (/\ last.op = "data"
     /\ \/ who[last.client].state = "NoSession"
        \/ last.cookie = None)
    => (last.status = 401 /\ last.body = <<>> /\ ~last.handler)

C4_Witness ==
    /\ last.op = "data" /\ last.after = "login_fail"
    /\ who[last.client].state = "NoSession"
    /\ last.status = 401

C6_LogoutNeedsSession ==
    /\ (/\ last.op = "logout" /\ last.src = "jar"
        /\ (last.cookie = None \/ ~CookieInLifetime))
       => (/\ last.status = 401 /\ last.body = <<>> /\ ~last.handler
           /\ last.set.act = "none" /\ jar[last.client] = last.cookie)
    /\ \A c \in Clients :
          who[c].state \in {"NoSession", "LoggedOut"} => jar[c] = None
    /\ (last.op = "logout" /\ last.src = "jar" /\ last.after = "logout_ok")
       => (last.status = 401 /\ ~last.handler)

C6_Witness ==
    /\ last.op = "logout" /\ last.src = "jar" /\ last.after = "logout_ok"
    /\ last.status = 401

\* C7: a login whose body is not a JSON object is answered with a 4xx
\* status and sets no cookie.
C7_MalformedLoginIsClientError ==
    (last.op = "login" /\ last.kind # "object")
    => (last.status \in 400..499 /\ last.set.act = "none")

C9_FreshSessionIdentifier ==
    (last.op = "login" /\ last.body = LoginTrue)
    => \A d \in Clients \ {last.client} : jar[d] # last.set.val

\* C10: a request whose context differs from the one its session was issued
\* in is treated as unauthenticated, and so is every later request that
\* presents that session's cookie.
C10_StrongProtectionInvalidates ==
    /\ (CookieInLifetime /\ ~SameContext /\ last.op # "login")
       => ~ServedAuthenticated
    /\ (/\ last.src = "stale"
        /\ stale[last.client] # None
        /\ stale[last.client][1].why = "protection")
       => ~ServedAuthenticated

C12_ValidSessionNamesUser ==
    /\ \A c \in Clients :
          /\ jar[c] # None => get_user(PyStr(jar[c][1].user_id)) # None
          /\ stale[c] # None
             => get_user(PyStr(stale[c][1].cookie.user_id)) # None
    /\ ServedAuthenticated => NamesUser
    /\ (last.op = "data" /\ last.handler)
       => (last.status = 200 /\ Len(last.body) = 2)

C12_Witness ==
    /\ last.op = "data" /\ last.handler
    /\ last.cookie[1].user_id = <<"1", "2">>
    /\ last.status = 200

\* C13: get_user, called with the integer n or with a decimal string of n,
\* returns the first record of the list whose id is n, and None when no
\* record has the id n.
C13_LookupByInteger ==
    probe # None =>
        LET hits == {i \in 1..Len(users) : users[i].id = probe[1].n}
        IN  IF hits = {} THEN probe[1].result = None
            ELSE probe[1].result
                    = Some(users[CHOOSE i \in hits : \A j \in hits : i <= j])

C13_Witness ==
    /\ probe # None /\ probe[1].arg.t = "str"
    /\ Len(users) = 2
    /\ users[1].id = probe[1].n /\ users[2].id = probe[1].n
    /\ users[1] # users[2]
    /\ probe[1].result = Some(users[1])

\* C14: a login with a JSON object answers {login: true} exactly when some
\* record has both the submitted username and the submitted password, and
\* then the session cookie carries the id of the earliest such record; when
\* no record has both, it answers {login: false} and the client's cookie is
\* the one it sent.
C14_LoginBindsFirstMatch ==
    (last.op = "login" /\ last.kind = "object") =>
        LET both == {i \in 1..Len(users) :
                        /\ Some(users[i].username) = last.username
                        /\ Some(users[i].password) = last.password}
            c == last.client
        IN  IF both = {}
            THEN last.body = LoginFalse /\ jar[c] = last.cookie
            ELSE /\ last.body = LoginTrue
                 /\ jar[c] # None
                 /\ ParseDecimal(jar[c][1].user_id)
                       = users[CHOOSE i \in both : \A j \in both : i <= j].id

C14_Witness ==
    /\ last.op = "login" /\ last.body = LoginTrue
    /\ Len(users) = 2
    /\ users[1].id # users[2].id
    /\ users[1].username = users[2].username
    /\ users[1].password = users[2].password
    /\ Some(users[1].username) = last.username
    /\ jar[last.client] # None
    /\ jar[last.client][1].user_id = DecimalOf(users[1].id)

\* C15: a login with the credentials of a record, sent by a client whose
\* previous request was its successful logout, answers {login: true} and
\* gives the client a session cookie of that user, issued then for the
\* context of the login; the getsession and data requests the client sends
\* with it (from that context, within the lifetime) answer {login: true}
\* and the user's name.
C15_ReloginAfterLogout ==
    /\ (/\ last.op = "login" /\ last.kind = "object"
        /\ last.after = "logout_ok" /\ CredentialsMatch)
       => LET c == last.client
          IN  /\ last.body = LoginTrue
              /\ jar[c] # None
              /\ jar[c][1].id = create_identifier(last.ctx)
              /\ jar[c][1].ts = last.at
              /\ \E i \in 1..Len(users) :
                    /\ users[i].id = ParseDecimal(jar[c][1].user_id)
                    /\ Some(users[i].username) = last.username
              /\ who[c] = [state |-> "Active", name |-> last.username]
    /\ (/\ last.op \in {"getsession", "data"} /\ last.src = "jar"
        /\ stale[last.client] # None
        /\ stale[last.client][1].why = "logout"
        /\ who[last.client].state = "Active"
        /\ SameContext /\ CookieInLifetime)
       => /\ last.status = 200
          /\ last.op = "getsession" => last.body = LoginTrue
          /\ last.op = "data"
             => last.body = <<"name", who[last.client].name[1]>>

C15_Witness ==
    /\ last.op = "data" /\ last.src = "jar" /\ last.after = "login_ok"
    /\ stale[last.client] # None /\ stale[last.client][1].why = "logout"
    /\ who[last.client].state = "Active"
    /\ last.body = <<"name", who[last.client].name[1]>>

\* C16: a login that does not answer {login: true} leaves the cookie and
\* the login state of every client as they were, and the getsession and
\* data requests a logged-in client sends right after one (with its
\* session cookie, valid for the request) answer {login: true} and the
\* user's name.
C16_FailedLoginKeepsSession ==
    [][/\ (last'.op = "login" /\ last'.body # LoginTrue)
          => (jar' = jar /\ who' = who)
       /\ (/\ last'.op \in {"getsession", "data"} /\ last'.src = "jar"
           /\ last'.after = "login_fail"
           /\ who'[last'.client].state = "Active"
           /\ SameContext' /\ CookieInLifetime')
          => /\ last'.status = 200
             /\ last'.op = "getsession" => last'.body = LoginTrue
             /\ last'.op = "data"
                => last'.body = <<"name", who'[last'.client].name[1]>>
      ]_vars

C16_Witness ==
    /\ last.op = "getsession" /\ last.src = "jar"
    /\ last.after = "login_fail"
    /\ who[last.client].state = "Active"
    /\ last.body = LoginTrue

\* C17: a client's jar holds at most one session cookie; after a successful
\* login it is a cookie of the user whose credentials were sent, whatever
\* the jar held before; and a data request from the jar answers with no
\* name or with the name of the user of the latest login, with that name
\* when the login replaced the cookie of an earlier one and the request
\* comes from the login's context within the lifetime.
C17_ReloginRebinds ==
    /\ \A c \in Clients : Len(jar[c]) <= 1
    /\ (last.op = "login" /\ last.body = LoginTrue)
       => LET c == last.client
          IN  /\ jar[c] # None
              /\ \E i \in 1..Len(users) :
                    /\ users[i].id = ParseDecimal(jar[c][1].user_id)
                    /\ Some(users[i].username) = last.username
              /\ who[c] = [state |-> "Active", name |-> last.username]
    /\ (/\ last.op = "data" /\ last.src = "jar"
        /\ who[last.client].state = "Active")
       => /\ last.body \in {<<>>, <<"name", who[last.client].name[1]>>}
          /\ (/\ stale[last.client] # None
              /\ stale[last.client][1].why = "relogin"
              /\ SameContext /\ CookieInLifetime)
             => last.body = <<"name", who[last.client].name[1]>>

C17_Witness ==
    /\ last.op = "data" /\ last.src = "jar"
    /\ stale[last.client] # None /\ stale[last.client][1].why = "relogin"
    /\ stale[last.client][1].cookie.user_id # last.cookie[1].user_id
    /\ last.body = <<"name", who[last.client].name[1]>>

\* C18: a getsession or data request that carries no cookie, or a cookie
\* issued for the context of the request, is answered without a Set-Cookie
\* and leaves every client's cookie and login state, the copies they keep
\* and the user list as they were.
C18_ReadsChangeNothing ==
    [][(/\ last'.op \in {"getsession", "data"}
        /\ \/ last'.cookie = None
           \/ last'.cookie[1].id = create_identifier(last'.ctx))
       => /\ last'.set.act = "none"
          /\ jar' = jar /\ stale' = stale /\ who' = who /\ users' = users
      ]_vars

C18_Witness ==
    /\ last.op = "data" /\ last.src = "jar" /\ last.status = 200
    /\ jar[last.client] = last.cookie
    /\ last.at > last.cookie[1].ts

====
